---- MODULE Spec2Model ----
(***************************************************************************)
(* reqtracker: dependency discovery core.                                  *)
(*                                                                         *)
(* A module name is the tuple of its dot-separated parts, so that          *)
(* "os.path" is <<"os", "path">>; split('.')[0] and replace('.', os.sep)    *)
(* are then computed on the parts.  A filesystem path is the tuple of its  *)
(* segments.  An Optional value is a set holding at most one element.      *)
(***************************************************************************)
EXTENDS Naturals, Sequences, FiniteSets, TLC

None == {}
Some(v) == {v}
The(o) == CHOOSE v \in o : TRUE

\* ------------------------------------------------------------------------
\* Bounds
\* ------------------------------------------------------------------------

\* largest number of import statements in the scanned application file
MaxImports == 2

\* ------------------------------------------------------------------------
\* The interpreter, the filesystem and the module universe
\* ------------------------------------------------------------------------

SELF == <<"reqtracker">>

ProjectRoot == <<"proj">>
MissingRoot == <<"nonexistent">>
StdlibDir == <<"usr", "lib", "python3">>
SitePackages == <<"usr", "lib", "python3", "site-packages">>

\* sys.path: the script directory, the standard library, site-packages
sys_path == <<ProjectRoot, StdlibDir, SitePackages>>

\* sys.builtin_module_names
builtin_module_names == {<<"sys">>, <<"_thread">>}

\* the standard library of the interpreter (sys.stdlib_module_names on 3.10+)
stdlib_module_names == {<<"sys">>, <<"_thread">>, <<"os">>, <<"json">>}

\* where each module of the universe lives; a built-in module has no file
ModuleFile ==
    [n \in {<<"sys">>, <<"_thread">>, <<"os">>, <<"os", "path">>, <<"json">>,
            <<"requests">>, <<"requests", "adapters">>, <<"numpy">>, SELF,
            <<"mymod">>, <<"mypkg">>} |->
        CASE n = <<"sys">> -> None
          [] n = <<"_thread">> -> None
          [] n = <<"os">> -> Some(StdlibDir \o <<"os.py">>)
          [] n = <<"os", "path">> -> Some(StdlibDir \o <<"posixpath.py">>)
          [] n = <<"json">> -> Some(StdlibDir \o <<"json", "__init__.py">>)
          [] n = <<"requests">> -> Some(SitePackages \o <<"requests", "__init__.py">>)
          [] n = <<"requests", "adapters">> -> Some(SitePackages \o <<"requests", "adapters.py">>)
          [] n = <<"numpy">> -> Some(SitePackages \o <<"numpy", "__init__.py">>)
          [] n = SELF -> Some(SitePackages \o <<"reqtracker", "__init__.py">>)
          [] n = <<"mymod">> -> Some(ProjectRoot \o <<"mymod.py">>)
          [] n = <<"mypkg">> -> Some(ProjectRoot \o <<"mypkg", "__init__.py">>)]

\* the application file that the scanner reads besides the project's modules
AppFile == ProjectRoot \o <<"app.py">>

\* two more source files of the project, each in a directory of its own
VenvFile == ProjectRoot \o <<"venv", "lib.py">>
Venv2File == ProjectRoot \o <<"venv2", "tool.py">>

\* every regular file of the filesystem
FsFiles == UNION {ModuleFile[n] : n \in DOMAIN ModuleFile}
               \cup {AppFile, VenvFile, Venv2File}

\* file names whose suffix is ".py"
PyFileNames == {"os.py", "posixpath.py", "__init__.py", "adapters.py",
                "mymod.py", "app.py", "lib.py", "tool.py"}

\* module names that start with an underscore
UnderscoreNames == {"_thread"}

\* module names that start with the text "reqtracker"
ReqtrackerPrefixed == {"reqtracker", "reqtracker_extras"}

\* ------------------------------------------------------------------------
\* pathlib
\* ------------------------------------------------------------------------

\* PurePath.is_relative_to(other): other is a leading part of path
is_relative_to(path, other) ==
    /\ Len(other) <= Len(path)
    /\ SubSeq(path, 1, Len(other)) = other

is_file(path) == path \in FsFiles

is_dir(path) == \E f \in FsFiles : Len(f) > Len(path) /\ is_relative_to(f, path)

exists(path) == is_file(path) \/ is_dir(path)

\* PurePath.suffix: the extension of the last segment
suffix(path) == IF path # <<>> /\ path[Len(path)] \in PyFileNames THEN ".py" ELSE ""

\* Path.resolve(): the modelled paths are absolute and hold no symlink and
\* no ".." segment, which is all that resolve() rewrites
resolve(path) == path

\* a path as the caller writes it: relative, or absolute (parts are then
\* the segments below the filesystem root)
RelativePath(parts) == [absolute |-> FALSE, parts |-> parts]
AbsolutePath(parts) == [absolute |-> TRUE, parts |-> parts]

\* ------------------------------------------------------------------------
\* core.py: module classification
\* ------------------------------------------------------------------------

\* split('.')[0] of a dotted module name
top_level(fullname) == <<fullname[1]>>

_get_module_origin(module_name, modules) ==
    IF module_name \in modules /\ module_name \in DOMAIN ModuleFile
           /\ ModuleFile[module_name] # None
    THEN Some(resolve(The(ModuleFile[module_name])))
    ELSE None

\* sys.prefix and sys.base_prefix are the same directory (no virtualenv)
_is_in_stdlib_path(module_path) ==
    LET stdlib_dirs == {StdlibDir, StdlibDir}
        site_packages_dirs == {sys_path[i] : i \in {j \in 1..Len(sys_path) :
                                   \E k \in 1..Len(sys_path[j]) :
                                       sys_path[j][k] \in {"site-packages", "dist-packages"}}}
    IN \E std_dir \in stdlib_dirs :
          /\ is_relative_to(module_path, std_dir)
          /\ ~ \E sp_dir \in site_packages_dirs : is_relative_to(module_path, sp_dir)

\* step 3 of is_third_party_module: a candidate on sys.path under project_root
is_local_candidate(module_name, project_root) ==
    \E i \in 1..Len(sys_path) :
        LET candidate_path == sys_path[i] \o module_name
        IN /\ \/ is_file(candidate_path) /\ suffix(candidate_path) = ".py"
              \/ is_dir(candidate_path) /\ is_file(candidate_path \o <<"__init__.py">>)
           /\ is_relative_to(resolve(candidate_path), resolve(project_root))

\* modules is sys.modules, has_stdlib_names is sys.version_info >= (3, 10)
is_third_party_module(module_name, project_root, modules, has_stdlib_names) ==
    IF module_name \in builtin_module_names THEN FALSE
    ELSE IF has_stdlib_names /\ module_name \in stdlib_module_names THEN FALSE
    ELSE IF /\ ~has_stdlib_names
            /\ _get_module_origin(module_name, modules) # None
            /\ _is_in_stdlib_path(The(_get_module_origin(module_name, modules)))
         THEN FALSE
    ELSE IF is_local_candidate(module_name, project_root) THEN FALSE
    ELSE TRUE

\* ------------------------------------------------------------------------
\* core.py: the static scanner
\* ------------------------------------------------------------------------

\* ast.Import with its aliases; ast.ImportFrom with its module and level
Import(names) == [kind |-> "Import", names |-> names, module |-> None, level |-> 0]
ImportFrom(module, level) == [kind |-> "ImportFrom", names |-> {}, module |-> module, level |-> level]

\* the visitor keeping the whole dotted name instead of its first segment
ImportVisitor_dotted(body) ==
    UNION {st.names : st \in {s \in body : s.kind = "Import"}}
    \cup {The(st.module) :
            st \in {s \in body : s.kind = "ImportFrom" /\ s.module # None}}

\* ImportVisitor: body is every statement of the tree, at any depth
ImportVisitor(body) ==
    {top_level(n) : n \in UNION {st.names : st \in {s \in body : s.kind = "Import"}}}
    \cup {top_level(The(st.module)) :
            st \in {s \in body : s.kind = "ImportFrom" /\ s.module # None}}

\* the directory that holds a file
parent(path) == SubSeq(path, 1, Len(path) - 1)

\* an ignore path as given: absolute or relative, with its segments
resolved_ignore_paths(project_path, ignore_paths) ==
    {resolve(project_path \o p.parts) : p \in ignore_paths}

\* the files that os.walk reaches and the scanner opens
scanned_files(project_path, ignore_paths) ==
    LET ign == resolved_ignore_paths(project_path, ignore_paths)
    IN {f \in FsFiles :
          /\ is_relative_to(f, project_path)
          /\ suffix(f) = ".py"
          /\ ~ \E ignore_p \in ign : is_relative_to(resolve(parent(f)), ignore_p)
          /\ ~ \E ignore_f \in ign : is_relative_to(f, ignore_f)}

\* the scan with its try statement around the whole walk: a file that fails
\* to parse ends the scan and nothing is reported
find_dependencies_static_aborting(project_root, ignore_paths, exclude_modules, srcs, modules, has_stdlib_names) ==
    LET project_path == resolve(project_root)
        scanned == scanned_files(project_path, ignore_paths)
    IN IF \E f \in scanned : ~srcs[f].parses THEN {}
       ELSE {module_name \in UNION {ImportVisitor(srcs[f].body) : f \in scanned} :
               /\ is_third_party_module(module_name, project_path, modules, has_stdlib_names)
               /\ module_name \notin exclude_modules}

find_dependencies_static(project_root, ignore_paths, exclude_modules, srcs, modules, has_stdlib_names) ==
    LET project_path == resolve(project_root)
        parsed == {f \in scanned_files(project_path, ignore_paths) :
                      f \in DOMAIN srcs /\ srcs[f].parses}
    IN {module_name \in UNION {ImportVisitor(srcs[f].body) : f \in parsed} :
          /\ is_third_party_module(module_name, project_path, modules, has_stdlib_names)
          /\ module_name \notin exclude_modules}

get_current_third_party_modules(project_root, exclude_modules, modules, has_stdlib_names) ==
    {module_name \in modules :
        /\ ~ (module_name[1] \in UnderscoreNames \/ Len(module_name) > 1)
        /\ is_third_party_module(module_name, project_root, modules, has_stdlib_names)
        /\ module_name \notin exclude_modules}

\* the comprehension with its test inverted
filter_dependencies_inverted(raw_dependencies, exclude_modules) ==
    {dep \in raw_dependencies : dep \in exclude_modules}

filter_dependencies(raw_dependencies, exclude_modules) ==
    {dep \in raw_dependencies : dep \notin exclude_modules}

\* ------------------------------------------------------------------------
\* config.py
\* ------------------------------------------------------------------------

\* the defaults of ReqtrackerConfig._config_data
default_config_data(project_root) ==
    [output_file |-> resolve(project_root \o <<"requirements.txt">>),
     mode |-> "hybrid",
     ignore_paths |-> {},
     exclude_modules |-> {},
     include_dev |-> FALSE,
     print_to_console |-> FALSE]

\* the keys of _config_data
ConfigKeys == {"output_file", "mode", "ignore_paths", "exclude_modules",
               "include_dev", "print_to_console"}

\* an output_file value of any layer: joined to the project root unless absolute
output_path(project_root, value) ==
    IF ~value.absolute THEN resolve(project_root \o value.parts)
    ELSE resolve(value.parts)

\* the loader without its except clause taking effect: what the text of a
\* malformed file says is used all the same
_load_toml_config_lenient(toml_file) ==
    IF toml_file = None THEN None ELSE The(toml_file).reqtracker

\* _load_toml_config: toml_file is the .reqtracker.toml of the project root
\* (None when there is none); the result is its [reqtracker] table or None
_load_toml_config(toml_file) ==
    IF toml_file = None THEN None
    ELSE IF ~The(toml_file).parses THEN None
    ELSE The(toml_file).reqtracker

\* _load_toml_config: the warning that it prints for a file that exists
\* and does not parse
toml_warning(toml_file) == toml_file # None /\ ~The(toml_file).parses

\* the TOML layer: every key of the table that _config_data has replaces
\* the accumulated value
apply_toml_settings(project_root, data, toml_settings) ==
    IF toml_settings = None THEN data
    ELSE [key \in DOMAIN data |->
            IF key \in DOMAIN The(toml_settings)
            THEN IF key = "output_file"
                 THEN output_path(project_root, The(toml_settings)[key])
                 ELSE The(toml_settings)[key]
            ELSE data[key]]

\* the inline layer with a truth test (`if value:`) in place of
\* `if value is not None:`
apply_inline_overrides_truthy(project_root, data, inline_overrides) ==
    [key \in DOMAIN data |->
        IF /\ key \in DOMAIN inline_overrides
           /\ inline_overrides[key] # None
           /\ key \in {"ignore_paths", "exclude_modules"}
                  => The(inline_overrides[key]) # {}
           /\ key \in {"include_dev", "print_to_console"}
                  => The(inline_overrides[key]) # FALSE
        THEN IF key = "output_file"
             THEN output_path(project_root, The(inline_overrides[key]))
             ELSE The(inline_overrides[key])
        ELSE data[key]]

\* the inline_overrides layer: a value that is not None replaces the
\* accumulated value of a key that _config_data already has
apply_inline_overrides(project_root, data, inline_overrides) ==
    [key \in DOMAIN data |->
        IF key \in DOMAIN inline_overrides /\ inline_overrides[key] # None
        THEN IF key = "output_file"
             THEN output_path(project_root, The(inline_overrides[key]))
             ELSE The(inline_overrides[key])
        ELSE data[key]]

\* the default values of the constructor's parameters
constructor_defaults ==
    [output_file |-> RelativePath(<<"requirements.txt">>),
     mode |-> "hybrid",
     ignore_paths |-> None,
     exclude_modules |-> None,
     include_dev |-> FALSE,
     print_to_console |-> FALSE]

\* the values that a function receives for its parameters: the passed
\* value where the caller passed one, the parameter's default elsewhere
received(defaults, passed) ==
    [name \in DOMAIN defaults |->
        IF name \in DOMAIN passed THEN passed[name] ELSE defaults[name]]

\* the constructor-argument layer: each argument is applied under the test
\* that the constructor makes on its value
apply_constructor_arguments(project_root, data, arguments) ==
    [key \in DOMAIN data |->
        CASE key = "output_file" ->
                 IF \/ arguments.output_file # RelativePath(<<"requirements.txt">>)
                    \/ arguments.output_file.absolute
                 THEN output_path(project_root, arguments.output_file)
                 ELSE data[key]
          [] key = "mode" ->
                 IF arguments.mode # "hybrid" THEN arguments.mode ELSE data[key]
          [] key = "ignore_paths" ->
                 IF arguments.ignore_paths # None
                 THEN The(arguments.ignore_paths) ELSE data[key]
          [] key = "exclude_modules" ->
                 IF arguments.exclude_modules # None
                 THEN The(arguments.exclude_modules) ELSE data[key]
          [] key = "include_dev" ->
                 IF arguments.include_dev # FALSE
                 THEN arguments.include_dev ELSE data[key]
          [] key = "print_to_console" ->
                 IF arguments.print_to_console # FALSE
                 THEN arguments.print_to_console ELSE data[key]]

\* ReqtrackerConfig.__init__: defaults, then the TOML table, then the inline
\* overrides (None when no dictionary is passed), then the direct arguments
ReqtrackerConfig__init__(project_root, arguments, inline_overrides, toml_file) ==
    LET root == resolve(project_root)
        from_toml == apply_toml_settings(root, default_config_data(root),
                                         _load_toml_config(toml_file))
        from_inline == IF inline_overrides = None THEN from_toml
                       ELSE apply_inline_overrides(root, from_toml,
                                                   The(inline_overrides))
    IN [project_root |-> root,
        data |-> apply_constructor_arguments(root, from_inline, arguments)]

\* ReqtrackerConfig(project_root, inline_overrides=...) of a project that
\* has no .reqtracker.toml
ReqtrackerConfig(project_root, inline_overrides) ==
    ReqtrackerConfig__init__(project_root, constructor_defaults,
                             Some(inline_overrides), None)

\* __getattr__: an attribute is defined if it is project_root or a key of _config_data
has_attr(config, name) == name = "project_root" \/ name \in DOMAIN config.data

\* ------------------------------------------------------------------------
\* output.py and mappings.py
\* ------------------------------------------------------------------------

\* the names of the universe in the order of Python's string comparison
\* (code points: upper case, then the underscore, then lower case)
CodePointOrder ==
    <<"PIL", "_thread", "cv2", "json", "mymod", "mypkg", "numpy", "os", "parent",
      "pil", "reqtracker", "requests", "six", "sys", "unknown_xyz", "yaml">>

\* sorted(list(dependencies)) of top-level module names, as strings
sorted(dependencies) ==
    SelectSeq(CodePointOrder, LAMBDA name : <<name>> \in dependencies)

\* the writer ending no line: every name on one line
write_requirements_file_joined(dependencies) ==
    IF dependencies = {} THEN <<>>
    ELSE <<[names |-> sorted(dependencies), newline |-> FALSE]>>

\* write_requirements_file: the lines of the file it writes; a line is the
\* names written on it and whether "\n" ends it
write_requirements_file(dependencies) ==
    [i \in 1..Len(sorted(dependencies)) |->
        [names |-> <<sorted(dependencies)[i]>>, newline |-> TRUE]]

\* IMPORT_TO_PACKAGE, for the names of the universe that are keys of it
IMPORT_TO_PACKAGE ==
    [name \in {"cv2", "PIL", "yaml", "numpy", "requests"} |->
        CASE name = "cv2" -> "opencv-python"
          [] name = "PIL" -> "Pillow"
          [] name = "yaml" -> "PyYAML"
          [] name = "numpy" -> "numpy"
          [] name = "requests" -> "requests"]

\* ------------------------------------------------------------------------
\* State
\* ------------------------------------------------------------------------

VARIABLES
    has_stdlib_names,             \* sys.version_info >= (3, 10)
    sources,                      \* the parsed content of the project's .py files
    sys_modules,                  \* the names of the loaded modules
    meta_path,                    \* sys.meta_path, the import-hook chain
    _tracked_modules,             \* tracker._tracked_modules
    _reqtracker_finder,           \* tracker._reqtracker_finder (Optional)
    _original_meta_path,          \* tracker._original_meta_path (Optional)
    _global_reqtracker_instance,  \* Optional; the Reqtracker's config
    _initial_loaded_modules,      \* Reqtracker._initial_loaded_modules
    pc,                           \* position inside track()
    final_dependencies,           \* Optional; the local of Reqtracker.track
    run_error,                    \* Optional; the exception leaving Reqtracker.track
    requirements_file,            \* Optional; the content written to output_file
    track_return,                 \* what the caller of track() got from its last call
    scan_result,                  \* Optional; a stand-alone find_dependencies_static call
    config_result,                \* Optional; a stand-alone configuration build
    caller_set                    \* Optional; the set a caller got from get_tracked_modules

vars == <<has_stdlib_names, sources, sys_modules, meta_path, _tracked_modules,
          _reqtracker_finder, _original_meta_path, _global_reqtracker_instance,
          _initial_loaded_modules, pc, final_dependencies, run_error,
          requirements_file, track_return, scan_result, config_result, caller_set>>

\* what no step of the process changes: the interpreter, the project's
\* sources, and the results of the stand-alone calls
env_vars == <<has_stdlib_names, sources, scan_result, config_result, caller_set>>

\* the tool's import hook, the interpreter's own finders, other parties' hooks
FINDER == "ReqtrackerMetaPathFinder"
DefaultMetaPath == <<"BuiltinImporter", "PathFinder">>
OtherHooks == {"OtherFinder"}

\* the statements that the application file may hold
AppStatements ==
    {Import({<<"requests">>}), Import({<<"numpy">>}),
     Import({<<"os", "path">>}), ImportFrom(Some(<<"mymod">>), 0)}

\* the modules that user code imports while the process runs
Importable == {<<"requests">>, <<"requests", "adapters">>, <<"numpy">>}

\* the exclude_modules arguments that callers pass (None, or a list)
ExcludeChoices == {None, Some({<<"numpy">>})}

ProjectRoots == {ProjectRoot, MissingRoot}
Modes == {"static", "dynamic", "hybrid"}

\* the Python files of the project
ProjectSources == {f \in FsFiles : is_relative_to(f, ProjectRoot) /\ suffix(f) = ".py"}

\* the process when the interpreter has started and the tool is imported
ProcessInit ==
    /\ sys_modules = {<<"sys">>, <<"_thread">>, <<"os">>, <<"os", "path">>, SELF}
    /\ meta_path = DefaultMetaPath
    /\ _tracked_modules = {}
    /\ _reqtracker_finder = None
    /\ _original_meta_path = None
    /\ _global_reqtracker_instance = None
    /\ _initial_loaded_modules = {}
    /\ pc = "idle"
    /\ final_dependencies = None
    /\ run_error = None
    /\ requirements_file = None
    /\ track_return = [returned |-> FALSE, raised |-> FALSE, value |-> None]
    /\ scan_result = None
    /\ config_result = None
    /\ caller_set = None

Init ==
    /\ has_stdlib_names \in BOOLEAN
    /\ \E body \in {b \in SUBSET AppStatements : Cardinality(b) <= MaxImports} :
          sources = [f \in ProjectSources |->
                        [parses |-> TRUE, body |-> IF f = AppFile THEN body ELSE {}]]
    /\ ProcessInit

\* ------------------------------------------------------------------------
\* tracker.py
\* ------------------------------------------------------------------------

RECURSIVE remove(_, _)
\* list.remove(x): drops the first occurrence; a ValueError is passed over
remove(list, x) ==
    IF list = <<>> THEN <<>>
    ELSE IF Head(list) = x THEN Tail(list)
    ELSE <<Head(list)>> \o remove(Tail(list), x)

\* the hook recording the whole dotted name of the attempt
find_spec_dotted(finder, fullname, tracked, modules) ==
    IF fullname[1] \in ReqtrackerPrefixed THEN tracked
    ELSE IF /\ top_level(fullname) \notin finder.exclude_modules
            /\ is_third_party_module(top_level(fullname), finder.project_root,
                                     modules, has_stdlib_names)
         THEN tracked \cup {fullname}
         ELSE tracked

\* ReqtrackerMetaPathFinder.find_spec: the tracked set after the attempt
find_spec(finder, fullname, tracked, modules) ==
    LET top_level_module_name == top_level(fullname)
    IN IF top_level_module_name[1] \in ReqtrackerPrefixed THEN tracked
       ELSE IF /\ top_level_module_name \notin finder.exclude_modules
               /\ is_third_party_module(top_level_module_name, finder.project_root,
                                        modules, has_stdlib_names)
            THEN tracked \cup {top_level_module_name}
            ELSE tracked

\* the copy taken after the insert instead of before it
saved_meta_path_after_insert(chain) == <<FINDER>> \o chain

\* the copy of sys.meta_path that enable keeps, taken before the insert
saved_meta_path(chain) == chain

\* enable without the guard of its first statement: it installs a finder
\* on every call
enable_dynamic_tracking_unguarded(chain, finder, original, project_root, exclude_modules) ==
    [meta_path |-> <<FINDER>> \o chain,
     finder |-> Some([project_root |-> project_root,
                      exclude_modules |-> IF exclude_modules # None
                                          THEN The(exclude_modules) ELSE {}]),
     original |-> Some(saved_meta_path(chain))]

\* enable_dynamic_tracking: the tracker's state after the call
enable_dynamic_tracking(chain, finder, original, project_root, exclude_modules) ==
    IF finder # None
    THEN [meta_path |-> chain, finder |-> finder, original |-> original]
    ELSE [meta_path |-> <<FINDER>> \o chain,
          finder |-> Some([project_root |-> project_root,
                           exclude_modules |-> IF exclude_modules # None
                                               THEN The(exclude_modules) ELSE {}]),
          original |-> Some(saved_meta_path(chain))]

\* disable_dynamic_tracking: the tracker's state after the call
disable_dynamic_tracking(chain, finder, original) ==
    IF finder = None
    THEN [meta_path |-> chain, finder |-> finder, original |-> original]
    ELSE LET removed == remove(chain, FINDER)
         IN [meta_path |-> IF original # None /\ removed # The(original)
                           THEN The(original) ELSE removed,
             finder |-> None,
             original |-> None]

\* the getter handing out the tracked set itself
get_tracked_modules_same_object == "_tracked_modules"

\* get_tracked_modules: the set object that the caller receives; .copy()
\* builds a new one
get_tracked_modules_object == "copy"

\* get_tracked_modules: a copy of the set
get_tracked_modules(tracked) == tracked

\* clear that leaves the set as it is
clear_tracked_modules_noop(tracked) == tracked

\* clear_tracked_modules
clear_tracked_modules(tracked) == {}

\* ------------------------------------------------------------------------
\* __init__.py: the tracking run
\* ------------------------------------------------------------------------

\* the configuration of the Reqtracker that track() last built
config == The(_global_reqtracker_instance)

\* the default values of track()'s parameters (project_root apart)
track_defaults ==
    [output_file |-> RelativePath(<<"requirements.txt">>),
     output_to_file |-> TRUE,
     print_to_console |-> FALSE,
     ignore_paths |-> None,
     exclude_modules |-> None,
     mode |-> "hybrid",
     include_dev |-> FALSE]

\* the inline_overrides dictionary that track() builds: every parameter
\* with the value received for it (an optional list is None or a list)
inline_overrides_of(arguments) ==
    [name \in DOMAIN arguments |->
        IF name \in {"ignore_paths", "exclude_modules"} THEN arguments[name]
        ELSE Some(arguments[name])]

\* the inline_overrides that track() builds from its arguments
track_inline_overrides(exclude_modules, mode) ==
    inline_overrides_of(received(track_defaults,
                                 [exclude_modules |-> exclude_modules, mode |-> mode]))

\* Reqtracker._finalize_tracking: the set it returns
_finalize_tracking(static_deps, initial_loaded_modules, dynamically_tracked, exclude_modules) ==
    filter_dependencies(static_deps \cup initial_loaded_modules \cup dynamically_tracked,
                        exclude_modules)

\* track(): from the call up to the existence check of Reqtracker.track
TrackCall(project_root, exclude_modules, mode) ==
    /\ pc = "idle"
    /\ LET off == IF _global_reqtracker_instance # None
                  THEN disable_dynamic_tracking(meta_path, _reqtracker_finder,
                                                _original_meta_path)
                  ELSE [meta_path |-> meta_path, finder |-> _reqtracker_finder,
                        original |-> _original_meta_path]
           cfg == ReqtrackerConfig(project_root,
                                   track_inline_overrides(exclude_modules, mode))
       IN /\ meta_path' = off.meta_path
          /\ _reqtracker_finder' = off.finder
          /\ _original_meta_path' = off.original
          /\ _tracked_modules' = IF _global_reqtracker_instance # None
                                 THEN clear_tracked_modules(_tracked_modules)
                                 ELSE _tracked_modules
          /\ _global_reqtracker_instance' = Some(cfg)
          /\ _initial_loaded_modules' = {}
          /\ final_dependencies' = None
          /\ IF exists(cfg.project_root)
             THEN pc' = "prepare" /\ run_error' = None
             ELSE pc' = "done" /\ run_error' = Some("project root does not exist")
    /\ UNCHANGED <<env_vars, track_return, sys_modules, requirements_file>>

\* Reqtracker.track: the try block; failed is an exception raised while the
\* loaded modules are inspected
Prepare(failed) ==
    /\ pc = "prepare"
    /\ pc' = "finalize"
    /\ IF failed
       THEN LET off == disable_dynamic_tracking(meta_path, _reqtracker_finder,
                                                _original_meta_path)
            IN /\ _tracked_modules' = clear_tracked_modules(_tracked_modules)
               /\ meta_path' = off.meta_path
               /\ _reqtracker_finder' = off.finder
               /\ _original_meta_path' = off.original
               /\ run_error' = Some("preparation")
               /\ UNCHANGED _initial_loaded_modules
       ELSE LET on == enable_dynamic_tracking(meta_path, _reqtracker_finder,
                                              _original_meta_path, config.project_root,
                                              Some(config.data.exclude_modules))
            IN /\ _tracked_modules' = clear_tracked_modules(_tracked_modules)
               /\ _initial_loaded_modules' =
                      get_current_third_party_modules(config.project_root,
                                                      config.data.exclude_modules,
                                                      sys_modules, has_stdlib_names)
               /\ meta_path' = on.meta_path
               /\ _reqtracker_finder' = on.finder
               /\ _original_meta_path' = on.original
               /\ UNCHANGED run_error
    /\ UNCHANGED <<env_vars, track_return, sys_modules, _global_reqtracker_instance,
                   final_dependencies, requirements_file>>

\* Reqtracker.track: _finalize_tracking() in the finally block; failed is an
\* exception raised by the static scan
Finalize(failed) ==
    /\ pc = "finalize"
    /\ LET off == disable_dynamic_tracking(meta_path, _reqtracker_finder,
                                           _original_meta_path)
           dynamically_tracked == get_tracked_modules(_tracked_modules)
           static_deps == find_dependencies_static(config.project_root,
                                                   config.data.ignore_paths,
                                                   config.data.exclude_modules,
                                                   sources, sys_modules, has_stdlib_names)
       IN /\ meta_path' = off.meta_path
          /\ _reqtracker_finder' = off.finder
          /\ _original_meta_path' = off.original
          /\ IF failed
             THEN /\ pc' = "done"
                  /\ run_error' = Some("finalization or output")
                  /\ UNCHANGED final_dependencies
             ELSE /\ pc' = "output"
                  /\ final_dependencies' =
                         Some(_finalize_tracking(static_deps, _initial_loaded_modules,
                                                 dynamically_tracked,
                                                 config.data.exclude_modules))
                  /\ UNCHANGED run_error
    /\ UNCHANGED <<env_vars, track_return, sys_modules, _tracked_modules, _global_reqtracker_instance,
                   _initial_loaded_modules, requirements_file>>

\* Reqtracker.track: the output stage of the finally block
Output ==
    /\ pc = "output"
    /\ pc' = "done"
    /\ IF ~has_attr(config, "output_to_file")
       THEN /\ run_error' = Some("finalization or output")
            /\ UNCHANGED requirements_file
       ELSE /\ requirements_file' =
                   IF config.data["output_to_file"]
                   THEN Some(write_requirements_file(The(final_dependencies)))
                   ELSE requirements_file
            /\ UNCHANGED run_error
    /\ UNCHANGED <<env_vars, track_return, sys_modules, meta_path, _tracked_modules, _reqtracker_finder,
                   _original_meta_path, _global_reqtracker_instance,
                   _initial_loaded_modules, final_dependencies>>

\* track(): Reqtracker.track is left and its locals with it; the except
\* clauses print the error, and track() returns None
Return ==
    /\ pc = "done"
    /\ pc' = "idle"
    /\ final_dependencies' = None
    /\ run_error' = None
    /\ track_return' = [returned |-> TRUE, raised |-> FALSE, value |-> None]
    /\ UNCHANGED <<env_vars, sys_modules, meta_path, _tracked_modules, _reqtracker_finder,
                   _original_meta_path, _global_reqtracker_instance,
                   _initial_loaded_modules, requirements_file>>

\* ------------------------------------------------------------------------
\* The rest of the process, which runs while no track() call is active
\* ------------------------------------------------------------------------

\* user code imports a module that is not loaded yet: the import machinery
\* asks each hook of the chain, the tool's hook declines, and the module loads
UserImport(fullname) ==
    /\ pc = "idle"
    /\ fullname \notin sys_modules
    /\ Len(fullname) > 1 => SubSeq(fullname, 1, Len(fullname) - 1) \in sys_modules
    /\ sys_modules' = sys_modules \cup {fullname}
    /\ _tracked_modules' =
           IF \E i \in 1..Len(meta_path) : meta_path[i] = FINDER
           THEN find_spec(The(_reqtracker_finder), fullname, _tracked_modules, sys_modules)
           ELSE _tracked_modules
    /\ UNCHANGED <<env_vars, track_return, meta_path, _reqtracker_finder, _original_meta_path,
                   _global_reqtracker_instance, _initial_loaded_modules, pc,
                   final_dependencies, run_error, requirements_file>>

\* other code puts a hook of its own at the front or at the end of the chain
OtherInsert(hook, front) ==
    /\ pc = "idle"
    /\ \A i \in 1..Len(meta_path) : meta_path[i] # hook
    /\ meta_path' = IF front THEN <<hook>> \o meta_path ELSE Append(meta_path, hook)
    /\ UNCHANGED <<env_vars, track_return, sys_modules, _tracked_modules, _reqtracker_finder,
                   _original_meta_path, _global_reqtracker_instance,
                   _initial_loaded_modules, pc, final_dependencies, run_error,
                   requirements_file>>

\* other code takes its hook out of the chain
OtherRemove(hook) ==
    /\ pc = "idle"
    /\ \E i \in 1..Len(meta_path) : meta_path[i] = hook
    /\ meta_path' = remove(meta_path, hook)
    /\ UNCHANGED <<env_vars, track_return, sys_modules, _tracked_modules, _reqtracker_finder,
                   _original_meta_path, _global_reqtracker_instance,
                   _initial_loaded_modules, pc, final_dependencies, run_error,
                   requirements_file>>

\* a direct call of tracker.enable_dynamic_tracking
Enable(project_root, exclude_modules) ==
    /\ pc = "idle"
    /\ LET on == enable_dynamic_tracking(meta_path, _reqtracker_finder,
                                         _original_meta_path, project_root,
                                         exclude_modules)
       IN /\ meta_path' = on.meta_path
          /\ _reqtracker_finder' = on.finder
          /\ _original_meta_path' = on.original
    /\ UNCHANGED <<env_vars, track_return, sys_modules, _tracked_modules, _global_reqtracker_instance,
                   _initial_loaded_modules, pc, final_dependencies, run_error,
                   requirements_file>>

\* a direct call of tracker.disable_dynamic_tracking
Disable ==
    /\ pc = "idle"
    /\ LET off == disable_dynamic_tracking(meta_path, _reqtracker_finder,
                                           _original_meta_path)
       IN /\ meta_path' = off.meta_path
          /\ _reqtracker_finder' = off.finder
          /\ _original_meta_path' = off.original
    /\ UNCHANGED <<env_vars, track_return, sys_modules, _tracked_modules, _global_reqtracker_instance,
                   _initial_loaded_modules, pc, final_dependencies, run_error,
                   requirements_file>>

\* a direct call of tracker.clear_tracked_modules
Clear ==
    /\ pc = "idle"
    /\ _tracked_modules' = clear_tracked_modules(_tracked_modules)
    /\ UNCHANGED <<env_vars, track_return, sys_modules, meta_path, _reqtracker_finder,
                   _original_meta_path, _global_reqtracker_instance,
                   _initial_loaded_modules, pc, final_dependencies, run_error,
                   requirements_file>>

Next ==
    \/ \E project_root \in ProjectRoots, exclude_modules \in ExcludeChoices, mode \in Modes :
          TrackCall(project_root, exclude_modules, mode)
    \/ \E failed \in BOOLEAN : Prepare(failed)
    \/ \E failed \in BOOLEAN : Finalize(failed)
    \/ Output
    \/ Return
    \/ \E fullname \in Importable : UserImport(fullname)
    \/ \E hook \in OtherHooks, front \in BOOLEAN : OtherInsert(hook, front)
    \/ \E hook \in OtherHooks : OtherRemove(hook)
    \/ \E exclude_modules \in ExcludeChoices : Enable(ProjectRoot, exclude_modules)
    \/ Disable
    \/ Clear

Spec == Init /\ [][Next]_vars

\* ------------------------------------------------------------------------
\* The tracker's functions called one by one, outside a run
\* ------------------------------------------------------------------------

\* the modules imported while the hook is looked at; reqtracker_extras is
\* a distribution of its own whose name begins with the tool's name
HookImportable ==
    {<<"requests">>, <<"requests", "adapters">>, <<"numpy">>, <<"json">>,
     <<"reqtracker_extras">>}

\* what a caller does to the set it got: adds a name or discards one
CallerEdits == {[add |-> TRUE, name |-> <<"six">>],
                [add |-> FALSE, name |-> <<"requests">>]}

InitHook ==
    /\ has_stdlib_names \in BOOLEAN
    /\ sources = [f \in ProjectSources |-> [parses |-> TRUE, body |-> {}]]
    /\ ProcessInit

\* a caller calls get_tracked_modules() and keeps the result
GetTracked ==
    /\ pc = "idle"
    /\ caller_set' = Some([object |-> get_tracked_modules_object,
                           value |-> get_tracked_modules(_tracked_modules)])
    /\ UNCHANGED <<has_stdlib_names, sources, scan_result, config_result,
                   track_return, sys_modules, meta_path, _tracked_modules,
                   _reqtracker_finder, _original_meta_path,
                   _global_reqtracker_instance, _initial_loaded_modules, pc,
                   final_dependencies, run_error, requirements_file>>

\* the caller changes the set it holds; the tracked set changes with it
\* when both are one object
CallerEdit(edit) ==
    /\ pc = "idle"
    /\ caller_set # None
    /\ LET edited(set) == IF edit.add THEN set \cup {edit.name}
                          ELSE set \ {edit.name}
       IN /\ caller_set' = Some([The(caller_set) EXCEPT !.value = edited(@)])
          /\ _tracked_modules' =
                 IF The(caller_set).object = "_tracked_modules"
                 THEN edited(_tracked_modules) ELSE _tracked_modules
    /\ UNCHANGED <<has_stdlib_names, sources, scan_result, config_result,
                   track_return, sys_modules, meta_path, _reqtracker_finder,
                   _original_meta_path, _global_reqtracker_instance,
                   _initial_loaded_modules, pc, final_dependencies, run_error,
                   requirements_file>>

NextHook ==
    \/ \E fullname \in HookImportable : UserImport(fullname)
    \/ \E exclude_modules \in ExcludeChoices : Enable(ProjectRoot, exclude_modules)
    \/ Disable
    \/ Clear
    \/ GetTracked
    \/ \E edit \in CallerEdits : CallerEdit(edit)

SpecHook == InitHook /\ [][NextHook]_vars

\* ------------------------------------------------------------------------
\* A stand-alone call of the static scanner
\* ------------------------------------------------------------------------

\* the statements that the application file may hold when it is scanned:
\* plain, dotted and multi-name imports, imports inside a function body,
\* from-imports, relative imports with and without a module
ScanStatements ==
    {Import({<<"requests">>}), Import({<<"requests", "adapters">>}),
     Import({<<"numpy">>, <<"os", "path">>}), Import({SELF}),
     ImportFrom(Some(<<"mypkg">>), 0), ImportFrom(Some(<<"numpy", "linalg">>), 0),
     ImportFrom(Some(<<"parent">>), 2), ImportFrom(None, 1)}

\* the ignore_paths arguments that callers pass (None, or a list)
IgnoreChoices ==
    {None, Some({RelativePath(<<"venv">>)}),
     Some({AbsolutePath(ProjectRoot \o <<"venv">>)}),
     Some({RelativePath(<<"app.py">>)})}

\* `if x is None: x = []` for an optional list argument
or_empty(list) == IF list = None THEN {} ELSE The(list)

\* the project as the scanner finds it: the application file and mymod.py
\* may be malformed, the files under venv/ and venv2/ import a package each
InitScan ==
    /\ has_stdlib_names \in BOOLEAN
    /\ \E body \in {b \in SUBSET ScanStatements : Cardinality(b) <= MaxImports},
          app_parses \in BOOLEAN, mymod_parses \in BOOLEAN :
          sources = [f \in ProjectSources |->
                        CASE f = AppFile -> [parses |-> app_parses, body |-> body]
                          [] f = ProjectRoot \o <<"mymod.py">> ->
                                 [parses |-> mymod_parses,
                                  body |-> {Import({<<"requests">>})}]
                          [] f = VenvFile ->
                                 [parses |-> TRUE, body |-> {Import({<<"six">>})}]
                          [] f = Venv2File ->
                                 [parses |-> TRUE, body |-> {Import({<<"yaml">>})}]
                          [] OTHER -> [parses |-> TRUE, body |-> {}]]
    /\ ProcessInit

\* find_dependencies_static(project_root, ignore_paths, exclude_modules)
Scan(project_root, ignore_paths, exclude_modules) ==
    /\ scan_result' =
           Some([project_root |-> project_root,
                 ignore_paths |-> or_empty(ignore_paths),
                 exclude_modules |-> or_empty(exclude_modules),
                 dependencies |->
                     find_dependencies_static(project_root, or_empty(ignore_paths),
                                              or_empty(exclude_modules), sources,
                                              sys_modules, has_stdlib_names)])
    /\ UNCHANGED <<has_stdlib_names, sources, config_result, caller_set, track_return,
                   sys_modules, meta_path, _tracked_modules, _reqtracker_finder,
                   _original_meta_path, _global_reqtracker_instance,
                   _initial_loaded_modules, pc, final_dependencies, run_error,
                   requirements_file>>

NextScan ==
    \E project_root \in ProjectRoots, ignore_paths \in IgnoreChoices,
       exclude_modules \in ExcludeChoices :
        Scan(project_root, ignore_paths, exclude_modules)

SpecScan == InitScan /\ [][NextScan]_vars

\* ------------------------------------------------------------------------
\* A stand-alone build of the configuration
\* ------------------------------------------------------------------------

\* the values that a layer may give to each key
SettingValues ==
    [key \in ConfigKeys |->
        CASE key = "output_file" ->
                 {RelativePath(<<"requirements.txt">>), RelativePath(<<"out.txt">>),
                  AbsolutePath(<<"tmp", "out.txt">>)}
          [] key = "mode" -> {"hybrid", "static"}
          [] key = "ignore_paths" -> {{}, {RelativePath(<<"venv">>)}}
          [] key = "exclude_modules" -> {{}, {<<"numpy">>}}
          [] key = "include_dev" -> BOOLEAN
          [] key = "print_to_console" -> BOOLEAN]

\* a layer that sets nothing, and a layer that sets one key
NoSettings == <<>>
OneSetting(key, value) == key :> value

\* the layers drawn: none, or one that sets one key to one of its values
SettingChoices ==
    {NoSettings} \cup UNION {{OneSetting(key, value) : value \in SettingValues[key]} :
                                key \in ConfigKeys}

\* the .reqtracker.toml files of the project root: none, one without a
\* [reqtracker] table, one whose table is a layer, and each of these with a
\* syntax error somewhere in its text (parses is then FALSE)
TomlFiles ==
    {None}
    \cup {Some([parses |-> parses, reqtracker |-> None]) : parses \in BOOLEAN}
    \cup {Some([parses |-> parses, reqtracker |-> Some(settings)]) :
             parses \in BOOLEAN, settings \in SettingChoices}

\* the inline_overrides arguments: no dictionary, or a dictionary that
\* holds one key with None or with a value
InlineChoices ==
    {None} \cup UNION {{Some(OneSetting(key, None))}
                          \cup {Some(OneSetting(key, Some(value))) :
                                   value \in SettingValues[key]} :
                       key \in ConfigKeys}

\* a value as the caller passes it for a parameter: a list parameter is
\* Optional in the signatures
as_argument(name, value) ==
    IF name \in {"ignore_paths", "exclude_modules"} THEN Some(value) ELSE value

\* the keyword arguments that a caller passes explicitly: none, or one
PassedChoices ==
    {NoSettings} \cup UNION {{OneSetting(key, as_argument(key, value)) :
                                 value \in SettingValues[key]} :
                             key \in ConfigKeys}

InitConfig ==
    /\ has_stdlib_names = TRUE
    /\ sources = [f \in ProjectSources |-> [parses |-> TRUE, body |-> {}]]
    /\ ProcessInit

\* ReqtrackerConfig(project_root, <passed>, inline_overrides=...) in a
\* project whose root holds toml_file; one build is looked at
Construct(toml_file, inline_overrides, passed) ==
    /\ config_result = None
    /\ config_result' =
           Some([via |-> "constructor",
                 toml_file |-> toml_file,
                 inline_overrides |-> inline_overrides,
                 passed |-> passed,
                 warned |-> toml_warning(toml_file),
                 config |-> ReqtrackerConfig__init__(
                                ProjectRoot, received(constructor_defaults, passed),
                                inline_overrides, toml_file)])
    /\ UNCHANGED <<has_stdlib_names, sources, scan_result, caller_set, track_return,
                   sys_modules, meta_path, _tracked_modules, _reqtracker_finder,
                   _original_meta_path, _global_reqtracker_instance,
                   _initial_loaded_modules, pc, final_dependencies, run_error,
                   requirements_file>>

\* track(<passed>): the configuration that it builds for the run
TrackConfig(toml_file, passed) ==
    /\ config_result = None
    /\ LET inline_overrides ==
               Some(inline_overrides_of(received(track_defaults, passed)))
       IN config_result' =
              Some([via |-> "track",
                    toml_file |-> toml_file,
                    inline_overrides |-> inline_overrides,
                    passed |-> passed,
                    warned |-> toml_warning(toml_file),
                    config |-> ReqtrackerConfig__init__(
                                   ProjectRoot, constructor_defaults,
                                   inline_overrides, toml_file)])
    /\ UNCHANGED <<has_stdlib_names, sources, scan_result, caller_set, track_return,
                   sys_modules, meta_path, _tracked_modules, _reqtracker_finder,
                   _original_meta_path, _global_reqtracker_instance,
                   _initial_loaded_modules, pc, final_dependencies, run_error,
                   requirements_file>>

NextConfig ==
    \/ \E toml_file \in TomlFiles, inline_overrides \in InlineChoices,
          passed \in PassedChoices :
           Construct(toml_file, inline_overrides, passed)
    \/ \E toml_file \in TomlFiles, passed \in PassedChoices :
           TrackConfig(toml_file, passed)

SpecConfig == InitConfig /\ [][NextConfig]_vars

\* ------------------------------------------------------------------------
\* A stand-alone call of the file writer
\* ------------------------------------------------------------------------

\* the module names handed to the writer
OutputNames ==
    {<<"cv2">>, <<"PIL">>, <<"pil">>, <<"yaml">>, <<"numpy">>, <<"requests">>,
     <<"unknown_xyz">>}

InitOutput == InitConfig

\* write_requirements_file(dependencies, output_path): the set handed over
\* and the file written
WriteFile(dependencies) ==
    /\ final_dependencies' = Some(dependencies)
    /\ requirements_file' = Some(write_requirements_file(dependencies))
    /\ UNCHANGED <<env_vars, track_return, sys_modules, meta_path, _tracked_modules,
                   _reqtracker_finder, _original_meta_path,
                   _global_reqtracker_instance, _initial_loaded_modules, pc,
                   run_error>>

NextOutput == \E dependencies \in SUBSET OutputNames : WriteFile(dependencies)

SpecOutput == InitOutput /\ [][NextOutput]_vars

\* ------------------------------------------------------------------------
\* Properties
\* ------------------------------------------------------------------------

in_chain(hook, chain) == \E i \in 1..Len(chain) : chain[i] = hook

\* a top-level module that the search path finds as name.py or as
\* name/__init__.py under root
on_search_path_under(module_name, root) ==
    /\ module_name \in DOMAIN ModuleFile
    /\ ModuleFile[module_name] # None
    /\ LET f == The(ModuleFile[module_name])
       IN /\ is_relative_to(f, root)
          /\ \E i \in 1..Len(sys_path) :
                \/ parent(f) = sys_path[i] /\ suffix(f) = ".py"
                \/ f = sys_path[i] \o module_name \o <<"__init__.py">>

\* C1: the dependency set that a run hands to the output stage never holds
\* the tool's own package name
C1_SelfExclusion ==
    final_dependencies # None => SELF \notin The(final_dependencies)

\* C2: a step that disables the tracker leaves the import-hook chain as it
\* was just before, less the tool's hook: hooks that others inserted after
\* enable stay, hooks that others removed are not put back
C2_DisableRemovesOnlyOwnHook ==
    [][(_reqtracker_finder # None /\ _reqtracker_finder' = None)
          => meta_path' = remove(meta_path, FINDER)]_vars

\* C3: once a run has raised an error during preparation, finalization or
\* output, the tool's hook is out of the chain and the tracker is disabled,
\* up to and including the moment the error leaves Reqtracker.track
C3_HookRemovedOnError ==
    run_error \in {Some("preparation"), Some("finalization or output")}
        => (~in_chain(FINDER, meta_path) /\ _reqtracker_finder = None)

\* C3 witness: a run that armed the tracker has ended with an error
C3_Witness ==
    /\ pc = "done"
    /\ run_error = Some("finalization or output")
    /\ SELF \in _initial_loaded_modules

\* C4: a run on a project root that does not exist changes neither the
\* import-hook chain nor the tracker's state before it fails
C4_MissingRootChangesNothing ==
    [][(pc = "idle" /\ pc' = "done")
          => UNCHANGED <<meta_path, _tracked_modules, _reqtracker_finder,
                         _original_meta_path>>]_vars

\* C5: once track() has started a dynamic or hybrid run on an existing root,
\* a third-party module that user code imports for the first time is recorded
\* in the tracked set
C5_LaterImportIsTracked ==
    [][(/\ pc = "idle"
        /\ sys_modules' # sys_modules
        /\ _global_reqtracker_instance # None
        /\ exists(config.project_root)
        /\ config.data.mode # "static")
          => \A fullname \in sys_modules' \ sys_modules :
                (/\ top_level(fullname) \notin config.data.exclude_modules
                 /\ is_third_party_module(top_level(fullname), config.project_root,
                                          sys_modules, has_stdlib_names))
                    => top_level(fullname) \in _tracked_modules']_vars

\* C6: the set that finalize returns is the union of the static scan result,
\* the pre-loaded snapshot and the tracked names, less every excluded name
C6_FinalizeIsFilteredUnion ==
    final_dependencies # None =>
        /\ The(final_dependencies) =
              (find_dependencies_static(config.project_root, config.data.ignore_paths,
                                        config.data.exclude_modules, sources,
                                        sys_modules, has_stdlib_names)
               \cup _initial_loaded_modules \cup _tracked_modules)
              \ config.data.exclude_modules
        /\ \A name \in config.data.exclude_modules : name \notin The(final_dependencies)

\* C6 witness: an excluded name is imported by a scanned file and is loaded,
\* and finalize has returned its set
C6_Witness ==
    /\ final_dependencies # None
    /\ config.data.exclude_modules = {<<"numpy">>}
    /\ <<"numpy">> \in ImportVisitor(sources[AppFile].body)
    /\ <<"numpy">> \in sys_modules
    /\ <<"requests">> \in The(final_dependencies)

\* C7: no step of a run whose mode is static puts the tool's hook into the
\* import-hook chain
C7_StaticNeverEnables ==
    [][(pc # "idle" /\ config.data.mode = "static")
          => (in_chain(FINDER, meta_path') => in_chain(FINDER, meta_path))]_vars

\* C8: in a run whose mode is dynamic, every name of the result was loaded
\* before prepare or was recorded by the hook; a name that only a source
\* file imports is not in it
C8_DynamicSkipsScan ==
    (pc = "output" /\ config.data.mode = "dynamic")
        => \A name \in The(final_dependencies) :
              name \in _initial_loaded_modules \/ name \in _tracked_modules

\* C9: a module that the search path finds as name.py or name/__init__.py
\* under the project root never classifies as third-party
C9_ProjectModulesAreLocal ==
    \A module_name \in {n \in DOMAIN ModuleFile : Len(n) = 1} :
        on_search_path_under(module_name, ProjectRoot)
            => ~is_third_party_module(module_name, ProjectRoot, sys_modules,
                                      has_stdlib_names)

\* C10: a built-in or standard-library module never classifies as
\* third-party, loaded or not, with or without sys.stdlib_module_names
C10_StdlibNeverThirdParty ==
    \A module_name \in builtin_module_names \cup stdlib_module_names :
        ~is_third_party_module(module_name, ProjectRoot, sys_modules, has_stdlib_names)

\* C11: in a run whose mode is static the result is exactly what the scan of
\* the source files finds; a module that is only loaded in the process adds
\* nothing to it
C11_StaticModeIsScanOnly ==
    (final_dependencies # None /\ config.data.mode = "static")
        => The(final_dependencies) =
               find_dependencies_static(config.project_root, config.data.ignore_paths,
                                        config.data.exclude_modules, sources,
                                        sys_modules, has_stdlib_names)

\* C12: a call of track() that has returned gave its caller a set of module
\* names (the empty set when nothing is found), whatever the mode
C12_TrackReturnsSet ==
    track_return.returned => track_return.value # None

\* C13: a run that ends with an exception of finalization or output hands
\* that exception to the caller of track(), returns no set and has written
\* no file
C13_FinalizationErrorPropagates ==
    [][(pc = "done" /\ run_error = Some("finalization or output") /\ pc' = "idle")
          => /\ track_return'.raised
             /\ track_return'.value = None
             /\ requirements_file' = None]_vars

\* the tracker's state as the two functions return it
tracker_state ==
    [meta_path |-> meta_path, finder |-> _reqtracker_finder,
     original |-> _original_meta_path]

\* C14: enable while enabled and disable while disabled return the tracker's
\* state as it is (neither function assigns the tracked set); the first
\* enable puts the hook at the head of the chain; the chain holds the hook
\* at most once, and only while the tracker is enabled
C14_EnableDisableIdempotent ==
    /\ _reqtracker_finder # None =>
           \A project_root \in ProjectRoots, exclude_modules \in ExcludeChoices :
               enable_dynamic_tracking(meta_path, _reqtracker_finder,
                                       _original_meta_path, project_root,
                                       exclude_modules) = tracker_state
    /\ _reqtracker_finder = None =>
           /\ disable_dynamic_tracking(meta_path, _reqtracker_finder,
                                       _original_meta_path) = tracker_state
           /\ \A exclude_modules \in ExcludeChoices :
                  Head(enable_dynamic_tracking(meta_path, _reqtracker_finder,
                                               _original_meta_path, ProjectRoot,
                                               exclude_modules).meta_path) = FINDER
    /\ Cardinality({i \in 1..Len(meta_path) : meta_path[i] = FINDER}) <= 1
    /\ in_chain(FINDER, meta_path) => _reqtracker_finder # None

\* C14 witness: the tracker is enabled by a direct call while no run is
\* active, and another hook was put in front of the tool's hook since
C14_Witness ==
    /\ pc = "idle"
    /\ _reqtracker_finder # None
    /\ Len(meta_path) >= 2
    /\ meta_path[1] = "OtherFinder"
    /\ meta_path[2] = FINDER

C16_ParseFailureIsSkipped ==
    scan_result # None =>
        LET call == The(scan_result)
            project_path == resolve(call.project_root)
            scanned == scanned_files(project_path, call.ignore_paths)
            good == {f \in scanned : sources[f].parses}
        IN /\ \A f \in good : \A X \in ImportVisitor(sources[f].body) :
                  (/\ is_third_party_module(X, project_path, sys_modules,
                                            has_stdlib_names)
                   /\ X \notin call.exclude_modules)
                      => X \in call.dependencies
           /\ \A X \in call.dependencies :
                  \E f \in good : X \in ImportVisitor(sources[f].body)

\* C16 witness: the application file imports numpy and fails to parse,
\* mymod.py imports requests and parses, and the scan has returned
C16_Witness ==
    /\ scan_result # None
    /\ The(scan_result).project_root = ProjectRoot
    /\ The(scan_result).ignore_paths = {}
    /\ The(scan_result).exclude_modules = {}
    /\ ~sources[AppFile].parses
    /\ Import({<<"numpy">>, <<"os", "path">>}) \in sources[AppFile].body
    /\ sources[ProjectRoot \o <<"mymod.py">>].parses
    /\ <<"requests">> \in The(scan_result).dependencies
    /\ <<"numpy">> \notin The(scan_result).dependencies

\* C17: the result is what the files that are not located under an ignore
\* path contribute, the ignore path being the path the caller named, given
\* relative to the project root or absolute; containment is by path
\* segments, so venv2/ is not under venv
C17_IgnoredFilesContributeNothing ==
    scan_result # None =>
        LET call == The(scan_result)
            project_path == resolve(call.project_root)
            named == {IF p.absolute THEN p.parts ELSE project_path \o p.parts :
                         p \in call.ignore_paths}
            kept == {f \in ProjectSources :
                        /\ is_relative_to(f, project_path)
                        /\ sources[f].parses
                        /\ ~ \E ignore_p \in named : is_relative_to(f, ignore_p)}
        IN call.dependencies =
               {X \in UNION {ImportVisitor(sources[f].body) : f \in kept} :
                   /\ is_third_party_module(X, project_path, sys_modules,
                                            has_stdlib_names)
                   /\ X \notin call.exclude_modules}

\* the [reqtracker] table that a build read, as a layer
toml_layer(call) ==
    IF call.toml_file # None /\ The(call.toml_file).parses
           /\ The(call.toml_file).reqtracker # None
    THEN The(The(call.toml_file).reqtracker)
    ELSE NoSettings

\* the value of a setting as the configuration stores it
stored(key, value) ==
    IF key = "output_file" THEN output_path(ProjectRoot, value) ELSE value

\* C18: a setting passed explicitly to the constructor has the passed
\* value in the configuration, for every value passed and whatever the
\* config file and the inline overrides hold
C18_ConstructorArgumentWins ==
    (config_result # None /\ The(config_result).via = "constructor") =>
        LET call == The(config_result)
        IN \A key \in DOMAIN call.passed :
              call.config.data[key] =
                  stored(key, IF key \in {"ignore_paths", "exclude_modules"}
                              THEN The(call.passed[key]) ELSE call.passed[key])

\* C19: a setting among mode, output_file, print_to_console, include_dev
\* that the caller of track() does not pass has the value that the config
\* file gives it
C19_TrackKeepsConfigFileValue ==
    (config_result # None /\ The(config_result).via = "track") =>
        LET call == The(config_result)
        IN \A key \in {"mode", "output_file", "print_to_console", "include_dev"} :
              (key \notin DOMAIN call.passed /\ key \in DOMAIN toml_layer(call))
                  => call.config.data[key] = stored(key, toml_layer(call)[key])

\* C20: for every key that is not passed as a direct argument, the
\* configuration holds the inline value when there is one that is not None
\* (an empty list included), else the config-file value when there is one,
\* else the default
C20_InlineOverTomlOverDefault ==
    (config_result # None /\ The(config_result).via = "constructor") =>
        LET call == The(config_result)
            inline == IF call.inline_overrides = None THEN NoSettings
                      ELSE The(call.inline_overrides)
        IN \A key \in ConfigKeys \ DOMAIN call.passed :
              call.config.data[key] =
                  IF key \in DOMAIN inline /\ inline[key] # None
                  THEN stored(key, The(inline[key]))
                  ELSE IF key \in DOMAIN toml_layer(call)
                  THEN stored(key, toml_layer(call)[key])
                  ELSE default_config_data(ProjectRoot)[key]

\* C20 witness: the config file excludes numpy, the inline overrides hold
\* an empty exclude list, no direct argument is passed, and the list of the
\* configuration is empty
C20_Witness ==
    /\ config_result # None
    /\ The(config_result).via = "constructor"
    /\ The(config_result).passed = NoSettings
    /\ toml_layer(The(config_result)) = OneSetting("exclude_modules", {<<"numpy">>})
    /\ The(config_result).inline_overrides =
           Some(OneSetting("exclude_modules", Some({})))
    /\ The(config_result).config.data.exclude_modules = {}

line_names(file) == UNION {{line.names[i] : i \in 1..Len(line.names)} :
                              line \in {file[j] : j \in 1..Len(file)}}

\* C22: the written file shows every module name that is a key of the
\* import-to-package table as its package name (exact, case-sensitive
\* lookup) and every other name unchanged
C22_OutputShowsPackageNames ==
    (requirements_file # None /\ final_dependencies # None) =>
        line_names(The(requirements_file)) =
            {IF dep[1] \in DOMAIN IMPORT_TO_PACKAGE THEN IMPORT_TO_PACKAGE[dep[1]]
             ELSE dep[1] : dep \in The(final_dependencies)}

\* C23: the written file has one line for each element of the set, each
\* ended by a newline, in ascending order of the names; the lines read
\* back that are not comments are the set that was written
C23_OutputFileRoundTrip ==
    (requirements_file # None /\ final_dependencies # None) =>
        LET file == The(requirements_file)
            position(name) == CHOOSE i \in 1..Len(CodePointOrder) :
                                  CodePointOrder[i] = name
            read_back == {<<file[j].names[1]>> : j \in 1..Len(file)}
        IN /\ Len(file) = Cardinality(The(final_dependencies))
           /\ \A j \in 1..Len(file) : Len(file[j].names) = 1 /\ file[j].newline
           /\ \A j \in 1..Len(file), k \in 1..Len(file) :
                  j < k => position(file[j].names[1]) < position(file[k].names[1])
           /\ read_back = The(final_dependencies)

\* C23 witness: a set with names of both cases has been written
C23_Witness ==
    /\ final_dependencies = Some({<<"cv2">>, <<"PIL">>, <<"requests">>})
    /\ requirements_file # None
    /\ Len(The(requirements_file)) = 3
    /\ The(requirements_file)[1].names = <<"PIL">>

\* C24: an import attempt records its top-level name when that name is not
\* the tool's own package, is not excluded and classifies as third-party,
\* and leaves the tracked set as it is otherwise; a module whose name only
\* begins with the tool's name is recorded like any other
C24_HookRecordsAllButSelf ==
    [][\A fullname \in sys_modules' \ sys_modules :
          in_chain(FINDER, meta_path) =>
              LET n == top_level(fullname)
              IN _tracked_modules' =
                     IF /\ n # SELF
                        /\ n \notin The(_reqtracker_finder).exclude_modules
                        /\ is_third_party_module(n, The(_reqtracker_finder).project_root,
                                                 sys_modules, has_stdlib_names)
                     THEN _tracked_modules \cup {n}
                     ELSE _tracked_modules]_vars

\* C25: an import attempt leaves the import-hook chain and the tracker's
\* enabled state as they are and changes the tracked set at most by adding
\* the attempt's top-level name; the module is loaded by the hooks behind
C25_HookOnlyKeepsBooks ==
    [][\A fullname \in sys_modules' \ sys_modules :
          /\ meta_path' = meta_path
          /\ _reqtracker_finder' = _reqtracker_finder
          /\ _original_meta_path' = _original_meta_path
          /\ caller_set' = caller_set
          /\ _tracked_modules' \in {_tracked_modules,
                                    _tracked_modules \cup {top_level(fullname)}}
          /\ sys_modules' = sys_modules \cup {fullname}]_vars

\* C25 witness: with the hook installed and numpy excluded, numpy and the
\* nested module requests.adapters were imported and requests is recorded
C25_Witness ==
    /\ in_chain(FINDER, meta_path)
    /\ The(_reqtracker_finder).exclude_modules = {<<"numpy">>}
    /\ {<<"numpy">>, <<"requests", "adapters">>} \subseteq sys_modules
    /\ _tracked_modules = {<<"requests">>}

\* C27: what a caller does to the set it got from get_tracked_modules does
\* not change the tracked set; a step that changes the tracked set (clear,
\* or an import) changes neither the chain nor the enabled state, and
\* without an import it leaves the set empty; a step that changes the chain
\* or the enabled state (enable, disable) leaves the tracked set unchanged
C27_TrackerFrames ==
    [][/\ caller_set' # caller_set
            => /\ _tracked_modules' = _tracked_modules
               /\ caller_set = None => The(caller_set').value = _tracked_modules
       /\ _tracked_modules' # _tracked_modules
            => /\ meta_path' = meta_path
               /\ _reqtracker_finder' = _reqtracker_finder
               /\ _original_meta_path' = _original_meta_path
               /\ sys_modules' = sys_modules => _tracked_modules' = {}
       /\ (meta_path' # meta_path \/ _reqtracker_finder' # _reqtracker_finder)
            => _tracked_modules' = _tracked_modules]_vars

\* C27 witness: a caller holds a set that it got and then changed, while
\* the tracked set still holds what the hook recorded and the tracker is
\* disabled again
C27_Witness ==
    /\ caller_set # None
    /\ The(caller_set).value = {<<"numpy">>, <<"six">>}
    /\ _tracked_modules = {<<"requests">>, <<"numpy">>}
    /\ _reqtracker_finder = None

\* C26: when a run has armed tracking the tracked set is empty, whatever
\* was recorded before the run, and the set that finalize returns holds
\* nothing but what the scan finds, what the snapshot of the run holds and
\* what the hook recorded since the run armed it
C26_TrackedSetEmptyWhenArmed ==
    /\ (pc = "finalize" /\ in_chain(FINDER, meta_path)) => _tracked_modules = {}
    /\ pc = "output" =>
           The(final_dependencies) \subseteq
               find_dependencies_static(config.project_root, config.data.ignore_paths,
                                        config.data.exclude_modules, sources,
                                        sys_modules, has_stdlib_names)
               \cup _initial_loaded_modules \cup _tracked_modules

\* C26 witness: the first run of a process arms tracking after the hook,
\* installed by hand with numpy excluded, has seen requests imported
C26_Witness ==
    /\ pc = "finalize"
    /\ run_error = None
    /\ ~track_return.returned
    /\ in_chain(FINDER, meta_path)
    /\ The(_reqtracker_finder).exclude_modules = {<<"numpy">>}
    /\ config.data.exclude_modules = {}
    /\ <<"requests">> \in sys_modules
    /\ _tracked_modules = {}

\* C28: once preparation has raised, the run does not finalize, writes no
\* file, and the error that leaves the run is the preparation error
C28_PreparationErrorStopsRun ==
    [][run_error = Some("preparation")
          => /\ final_dependencies' = None
             /\ requirements_file' = requirements_file
             /\ pc' # "idle" => run_error' = Some("preparation")]_vars

\* C29: every setting that a run reads is an attribute of the
\* configuration that track() built, and a run on an existing root that
\* ends without an error has written its dependency set to the output file
C29_RunSettingsAreDefined ==
    /\ _global_reqtracker_instance # None =>
           \A name \in {"project_root", "ignore_paths", "exclude_modules",
                         "output_file", "output_to_file", "print_to_console"} :
               has_attr(config, name)
    /\ (pc = "done" /\ exists(config.project_root)) => run_error = None
    /\ (pc = "done" /\ run_error = None) =>
           requirements_file = Some(write_requirements_file(The(final_dependencies)))

\* C30: a relative import (level greater than zero) adds no name to the
\* scan result: the result is what the absolute import statements give
C30_RelativeImportsAreIgnored ==
    scan_result # None =>
        LET call == The(scan_result)
            absolute_only == [f \in DOMAIN sources |->
                                 [sources[f] EXCEPT
                                     !.body = {st \in @ : st.level = 0}]]
        IN call.dependencies =
               find_dependencies_static(call.project_root, call.ignore_paths,
                                        call.exclude_modules, absolute_only,
                                        sys_modules, has_stdlib_names)

====
